---- MODULE Spec2Model ----
(***************************************************************************)
(* Incident Lens AI: the frame sampler, the audio extractor, the analysis  *)
(* run of the App and the interactive overlay tools of the dashboard.      *)
(*                                                                         *)
(* Times and coordinates are exact rationals <<numerator, denominator>>    *)
(* (the source computes them in IEEE doubles; the model keeps the          *)
(* arithmetic and leaves out the rounding of the last bit).                *)
(***************************************************************************)
EXTENDS Integers, Sequences, FiniteSets, Bags, TLC

VARIABLES
    src,          \* SpecSampler: the video resource behind videoUrl
    ex,           \* SpecSampler: the state of one extractFramesFromVideo call
    an,           \* SpecAnalyze: the state of one analyzeIncidentStream call
    env,          \* what the browser and the build give: API key, AudioContext
    app,          \* the state of the App component: phase, videoSources, analysis,
                  \* streamingLog, progress, error
    runs,         \* SpecApp: the startAnalysis calls in flight (a bag of their states)
    dash,         \* SpecDraw, SpecScan: the state of the AnalysisDashboard component
    hist          \* SpecDraw, SpecScan: history of the gestures (not state of the program)

samplerVars == <<src, ex>>
toolVars == <<dash, hist>>
vars == <<src, ex, an, env, app, runs, dash, hist>>

(***************************************************************************)
(* Bounds of the model.                                                    *)
(***************************************************************************)
MaxFrames == 5
MaxDuration == 10
MaxChannels == 2
MaxSmallLen == 2
MaxSources == 2
MaxChunks == 1
MaxRuns == 2
MaxPoints == 3
MaxZoom == 2
MaxPan == 3

(***************************************************************************)
(* Values.                                                                 *)
(***************************************************************************)
NULL == "null"
None == <<>>
Some(v) == <<v>>

RECURSIVE GCD(_, _)
GCD(a, b) == IF b = 0 THEN a ELSE GCD(b, a % b)

Abs(n) == IF n < 0 THEN -n ELSE n

\* A number of the source, as a fraction in lowest terms with a positive denominator.
Rat(n, d) ==
    LET g == GCD(Abs(n), Abs(d))
        s == IF d < 0 THEN -1 ELSE 1
    IN  <<(s * n) \div g, (s * d) \div g>>

RInt(n) == <<n, 1>>
RAdd(a, b) == Rat(a[1] * b[2] + b[1] * a[2], a[2] * b[2])
RSub(a, b) == Rat(a[1] * b[2] - b[1] * a[2], a[2] * b[2])
RMul(a, b) == Rat(a[1] * b[1], a[2] * b[2])
RDiv(a, b) == Rat(a[1] * b[2], a[2] * b[1])
RLt(a, b) == a[1] * b[2] < b[1] * a[2]
RLe(a, b) == a[1] * b[2] <= b[1] * a[2]
RAbs(a) == <<Abs(a[1]), a[2]>>
RMin(a, b) == IF RLe(a, b) THEN a ELSE b
\* The integer part of a non-negative number (what an unsigned-long attribute keeps).
RTrunc(a) == a[1] \div a[2]

(***************************************************************************)
(* extractFramesFromVideo (services/geminiService.ts).                     *)
(***************************************************************************)

\* The 2D context of the canvas created for the extraction: getContext('2d') on a
\* canvas that has no context yet returns the context object.
ctx == "CanvasRenderingContext2D"

\* The video resources an extraction can be pointed at: readable ones load their
\* metadata and complete every seek; an unreadable one raises an error event,
\* before or after its metadata.
NativeSizes == {<<1280, 720>>, <<641, 361>>}
Durations == {Rat(n, k) : n \in 1..MaxDuration, k \in {1, 3}}
Resources == [readable : BOOLEAN, duration : Durations, size : NativeSizes,
              keyframes : BOOLEAN]

\* The position the decoder of resource r settles on after a seek to time t: the
\* requested time, or (a resource that seeks by keyframes) the keyframe at or
\* before it; keyframes lie on the even seconds.
Settled(r, t) == IF r.keyframes THEN RInt(2 * (RTrunc(t) \div 2)) ELSE t

\* The promise and the locals of one call, before any event of the video element.
ExNew(numFrames) ==
    [stage       |-> "loading",       \* loading | seeking | finished | failed | threw
     numFrames   |-> numFrames,
     canvas      |-> <<300, 150>>,    \* the default size of a new canvas
     duration    |-> RInt(0),
     start       |-> RInt(0),
     interval    |-> RInt(0),
     i           |-> 0,
     time        |-> RInt(0),
     currentTime |-> RInt(0),
     listeners   |-> 0,               \* 'seeked' listeners registered
     frames      |-> <<>>,
     settled     |-> "pending",       \* pending | resolved | rejected
     result      |-> <<>>]

\* resolve(frames) / reject(e): a promise settles once.
ExResolve(e) ==
    IF e.settled = "pending"
    THEN [e EXCEPT !.settled = "resolved", !.result = e.frames, !.stage = "finished"]
    ELSE [e EXCEPT !.stage = "finished"]

ExReject(e) ==
    IF e.settled = "pending"
    THEN [e EXCEPT !.settled = "rejected", !.stage = "failed", !.listeners = 0]
    ELSE [e EXCEPT !.stage = "failed", !.listeners = 0]

\* const time = start + (interval * i)
SeekTime(e, i) == RAdd(e.start, RMul(e.interval, RInt(i)))

\* ExLoop with the loop bound off by one (i <= numFrames).
ExLoopOneMore(e, i) ==
    IF i <= e.numFrames
    THEN [e EXCEPT !.i = i,
                   !.time = SeekTime(e, i),
                   !.currentTime = SeekTime(e, i),
                   !.listeners = e.listeners + 1,
                   !.stage = "seeking"]
    ELSE ExResolve([e EXCEPT !.i = i])

\* The head of the for loop at index i: seek and wait for 'seeked', or resolve.
ExLoop(e, i) ==
    IF i < e.numFrames
    THEN [e EXCEPT !.i = i,
                   !.time = SeekTime(e, i),
                   !.currentTime = SeekTime(e, i),
                   !.listeners = e.listeners + 1,
                   !.stage = "seeking"]
    ELSE ExResolve([e EXCEPT !.i = i])

\* A duration that is a number of seconds; <<1, 0>> stands for Infinity, which a
\* video without a length in its container reports.
Infinity == <<1, 0>>
Finite(t) == t[2] # 0

\* video.onloadedmetadata, up to the first await. With numFrames = 1 the
\* interval is usableDuration / 0 and the first time is start + interval * 0,
\* which is NaN; with an infinite duration the first time is Infinity. The
\* assignment to video.currentTime throws a TypeError for both, inside the async
\* handler: the handler ends there, no seek is issued and neither resolve nor
\* reject is called.
ExLoadedMetadata(e, r) ==
    LET start == RMul(r.duration, Rat(1, 10))
        end == RMul(r.duration, Rat(9, 10))
        usableDuration == RSub(end, start)
        interval == RDiv(usableDuration, RInt(e.numFrames - 1))
    IN  IF ~Finite(r.duration) \/ e.numFrames = 1
        THEN [e EXCEPT !.canvas = <<r.size[1] \div 2, r.size[2] \div 2>>,
                       !.duration = r.duration,
                       !.stage = "threw"]
        ELSE ExLoop([e EXCEPT !.canvas = <<r.size[1] \div 2, r.size[2] \div 2>>,
                              !.duration = r.duration,
                              !.start = start,
                              !.interval = interval], 0)

\* FrameTimestamp reading video.currentTime in the handler instead of `time`.
FrameTimestampAchieved(e, settledAt) == settledAt

\* The frame pushed by seekHandler: the picture the decoder settled on, stamped
\* with the time that was requested.
FrameTimestamp(e, settledAt) == e.time

ExFrame(e, settledAt) ==
    [data |-> [at |-> settledAt, size |-> e.canvas], timestamp |-> FrameTimestamp(e, settledAt)]

\* ExSeeked with seekHandler leaving its listener on the video element.
ExSeekedKeepsListener(e, settledAt) ==
    LET heard == [e EXCEPT !.currentTime = settledAt,
                           !.frames = IF ctx # NULL
                                      THEN Append(e.frames, ExFrame(e, settledAt))
                                      ELSE e.frames]
    IN  ExLoop(heard, e.i + 1)

\* seekHandler, then the loop's next round (the await resumes before any other event).
ExSeeked(e, settledAt) ==
    LET heard == [e EXCEPT !.listeners = e.listeners - 1,
                           !.currentTime = settledAt,
                           !.frames = IF ctx # NULL
                                      THEN Append(e.frames, ExFrame(e, settledAt))
                                      ELSE e.frames]
    IN  ExLoop(heard, e.i + 1)

\* ExError resolving with the frames captured so far instead of rejecting.
ExErrorResolves(e) == ExResolve(e)

\* video.onerror = (e) => reject(e)
ExError(e) == ExReject(e)

(***************************************************************************)
(* bufferToWav and extractAudioFromVideo (services/geminiService.ts).      *)
(***************************************************************************)
TargetSampleRate == 16000
MaxDurationSec == 60

\* data written by DataView.setUint16 / setUint32 with littleEndian = true
LE16(data) == <<data % 256, (data \div 256) % 256>>
\* LE32 with the bytes in big-endian order (littleEndian left out).
BE32(data) == <<(data \div 16777216) % 256, (data \div 65536) % 256, (data \div 256) % 256,
                data % 256>>
LE32(data) == <<data % 256, (data \div 256) % 256, (data \div 65536) % 256,
                (data \div 16777216) % 256>>

\* The value read back from little-endian bytes b[from+1 .. from+n] of a container.
ReadLE(b, from, n) ==
    LET RECURSIVE Val(_)
        Val(k) == IF k > n THEN 0 ELSE b[from + k] + 256 * Val(k + 1)
    IN  Val(1)

\* The writer of bufferToWav: the bytes written so far and the position pos.
SetUint16(w, data) == [bytes |-> w.bytes \o LE16(data), pos |-> w.pos + 2]
SetUint32(w, data) == [bytes |-> w.bytes \o LE32(data), pos |-> w.pos + 4]

\* The decoded audio an AudioContext({sampleRate: 16000}) hands back. The channel
\* data is periodic: sample k of channel ch is pattern[((k + ch) % Len(pattern)) + 1].
SamplePatterns == {<<Rat(0, 1)>>, <<Rat(-1, 1), Rat(1, 1)>>, <<Rat(-3, 2), Rat(1, 4), Rat(2, 1)>>}
AudioLengths ==
    (0..MaxSmallLen)
    \cup {MaxDurationSec * TargetSampleRate - 1, MaxDurationSec * TargetSampleRate,
          MaxDurationSec * TargetSampleRate + 1, 2 * MaxDurationSec * TargetSampleRate}
AudioBuffers ==
    [numberOfChannels : 1..MaxChannels, length : AudioLengths,
     sampleRate : {TargetSampleRate}, pattern : SamplePatterns]

\* channels[i][offset]: undefined past the end of the channel data
ChannelSample(abuffer, i, offset) ==
    IF offset < abuffer.length
    THEN Some(abuffer.pattern[((offset + i) % Len(abuffer.pattern)) + 1])
    ELSE None

\* sample = Math.max(-1, Math.min(1, s)); (0.5 + sample < 0 ? sample * 32768 :
\* sample * 32767) | 0; an undefined sample is NaN, and NaN | 0 is 0.
RTruncToZero(a) == IF a[1] < 0 THEN -((-a[1]) \div a[2]) ELSE a[1] \div a[2]
ToInt16(s) ==
    IF s = None THEN 0
    ELSE LET v == s[1]
             c == IF RLt(v, RInt(-1)) THEN RInt(-1) ELSE IF RLt(RInt(1), v) THEN RInt(1) ELSE v
         IN  IF RLt(RAdd(Rat(1, 2), c), RInt(0))
             THEN RTruncToZero(RMul(c, RInt(32768)))
             ELSE RTruncToZero(RMul(c, RInt(32767)))

\* view.setInt16(pos, sample, true)
Int16Bytes(v) == LE16((v + 65536) % 65536)

\* let length = len * numOfChan * 2 + 44
WavLength(abuffer, len) == len * abuffer.numberOfChannels * 2 + 44

\* The 44 bytes written before the sample loop.
WavHeader(abuffer, len) ==
    LET numOfChan == abuffer.numberOfChannels
        length == WavLength(abuffer, len)
        w0  == [bytes |-> <<>>, pos |-> 0]
        w1  == SetUint32(w0, 1179011410)                 \* 0x46464952 "RIFF"
        w2  == SetUint32(w1, length - 8)
        w3  == SetUint32(w2, 1163280727)                 \* 0x45564157 "WAVE"
        w4  == SetUint32(w3, 544501094)                  \* 0x20746d66 "fmt "
        w5  == SetUint32(w4, 16)
        w6  == SetUint16(w5, 1)
        w7  == SetUint16(w6, numOfChan)
        w8  == SetUint32(w7, abuffer.sampleRate)
        w9  == SetUint32(w8, abuffer.sampleRate * 2 * numOfChan)
        w10 == SetUint16(w9, numOfChan * 2)
        w11 == SetUint16(w10, 16)
        w12 == SetUint32(w11, 1635017060)                \* 0x61746164 "data"
        w13 == SetUint32(w12, length - w12.pos - 4)
    IN  w13

\* WavRounds for a loop that goes on while pos <= length.
WavRoundsInclusive(abuffer, length, pos) ==
    IF pos <= length
    THEN (length - pos) \div (2 * abuffer.numberOfChannels) + 1
    ELSE 0

\* while (pos < length) { for each channel: write 2 bytes } offset++ }: the number
\* of rounds the loop makes from position pos.
WavRounds(abuffer, length, pos) ==
    IF pos < length
    THEN ((length - pos) + (2 * abuffer.numberOfChannels - 1)) \div (2 * abuffer.numberOfChannels)
    ELSE 0

\* The two bytes the loop writes in round `offset` for channel i.
WavSampleBytes(abuffer, offset, i) == Int16Bytes(ToInt16(ChannelSample(abuffer, i, offset)))

\* bufferToWav(abuffer, len): the ArrayBuffer, as its header, its byte length and
\* the writer's state when the loop ends (the sample bytes are WavSampleBytes).
BufferToWav(abuffer, len) ==
    LET h == WavHeader(abuffer, len)
        length == WavLength(abuffer, len)
        rounds == WavRounds(abuffer, length, h.pos)
    IN  [byteLength |-> length,
         header     |-> h.bytes,
         dataStart  |-> h.pos,
         pos        |-> h.pos + rounds * 2 * abuffer.numberOfChannels,
         offset     |-> rounds,
         of         |-> abuffer]

\* SamplesToKeep without the 60 s cap.
SamplesToKeepAll(audioBuffer) == audioBuffer.length

\* const samplesToKeep = Math.min(audioBuffer.length, maxDuration * audioBuffer.sampleRate)
SamplesToKeep(audioBuffer) ==
    IF audioBuffer.length < MaxDurationSec * audioBuffer.sampleRate
    THEN audioBuffer.length
    ELSE MaxDurationSec * audioBuffer.sampleRate

\* btoa over the bytes of the container: 4 characters for every 3 bytes, padded.
Base64(wav) == [chars |-> 4 * ((wav.byteLength + 2) \div 3), decoded |-> wav]

\* The steps of extractAudioFromVideo after decodeAudioData.
EncodeAudio(audioBuffer) == Base64(BufferToWav(audioBuffer, SamplesToKeep(audioBuffer)))

(***************************************************************************)
(* analyzeIncidentStream (services/geminiService.ts).                      *)
(***************************************************************************)

\* frame.timestamp.toFixed(3): the nearest thousandth, the larger of two nearest.
ToFixed3(t) == (2 * 1000 * t[1] + t[2]) \div (2 * t[2])

AudioPart(audioBase64) == [kind |-> "inlineData", mimeType |-> "audio/wav", data |-> audioBase64]
ImagePart(frame) == [kind |-> "inlineData", mimeType |-> "image/jpeg", data |-> frame.data]
TextPart(what, n, v) == [kind |-> "text", what |-> what, n |-> n, v |-> v]

\* FrameParts with each image ahead of its label.
FramePartsImageFirst(frames) ==
    LET RECURSIVE Go(_)
        Go(i) == IF i > Len(frames) THEN <<>>
                 ELSE <<ImagePart(frames[i]),
                        TextPart("frame", i, ToFixed3(frames[i].timestamp))>> \o Go(i + 1)
    IN  Go(1)

\* source.frames.forEach: the label of frame i, then its image
FrameParts(frames) ==
    LET RECURSIVE Go(_)
        Go(i) == IF i > Len(frames) THEN <<>>
                 ELSE <<TextPart("frame", i, ToFixed3(frames[i].timestamp)),
                        ImagePart(frames[i])>> \o Go(i + 1)
    IN  Go(1)

\* sources.forEach: the header of source index + 1, then its frames
SourceParts(sources) ==
    LET RECURSIVE Go(_)
        Go(k) == IF k > Len(sources) THEN <<>>
                 ELSE <<TextPart("source", k, sources[k].name)>>
                      \o FrameParts(sources[k].frames) \o Go(k + 1)
    IN  Go(1)

\* The parts of the request, given what extractAudioFromVideo returned (None: null,
\* or no call).
BuildParts(sources, audioBase64) ==
    (IF audioBase64 # None
     THEN <<AudioPart(audioBase64[1]), TextPart("audio note", 0, 0)>>
     ELSE <<>>)
    \o <<TextPart("intro", 0, 0)>>
    \o SourceParts(sources)
    \o <<TextPart("synthesis", 0, 0), TextPart("userPrompt", 0, 0)>>

\* One call, before it starts.
AnNew ==
    [stage        |-> "idle",   \* idle | fetching | reading | decoding | streaming | returned | threw
     sources      |-> <<>>,
     audioCalled  |-> FALSE,    \* extractAudioFromVideo was invoked
     audioFailure |-> NULL,     \* the step of extractAudioFromVideo that threw
     audioBase64  |-> None,     \* what extractAudioFromVideo returned
     parts        |-> <<>>,     \* the request sent to generateContentStream
     fullText     |-> 0,        \* chunks of text received
     result       |-> None,
     thrown       |-> None]

\* The error objects a call can throw: message is what err.message reads.
ErrorOf(message) == [message |-> message]

AnThrow(a, err) == [a EXCEPT !.stage = "threw", !.thrown = Some(err)]

\* After the audio step: build the parts and call generateContentStream.
AnRequest(a, audioBase64) ==
    [a EXCEPT !.stage = "streaming",
              !.audioBase64 = audioBase64,
              !.parts = BuildParts(a.sources, audioBase64)]

\* AudioCatch letting the failure escape extractAudioFromVideo.
AudioCatchRethrow(a, step) == AnThrow([a EXCEPT !.audioFailure = step], ErrorOf("audio"))

\* catch (e) { console.warn(...); return null; } of extractAudioFromVideo
AudioCatch(a, step) == AnRequest([a EXCEPT !.audioFailure = step], None)

\* The call up to its first await. env: what process.env.API_KEY and
\* new AudioContext give in this browser.
AnStart(sources, e) ==
    LET a == [AnNew EXCEPT !.sources = sources]
    IN  IF ~e.apiKey THEN AnThrow(a, ErrorOf("API Key not found"))
        ELSE IF Len(sources) > 0 /\ sources[1].url # None
        THEN LET called == [a EXCEPT !.audioCalled = TRUE]
             IN  IF e.audioContext
                 THEN [called EXCEPT !.stage = "fetching"]
                 ELSE AudioCatch(called, "context")
        ELSE AnRequest(a, None)

\* await fetch(videoUrl)
AnFetched(a, ok) == IF ok THEN [a EXCEPT !.stage = "reading"] ELSE AudioCatch(a, "fetch")

\* await response.arrayBuffer()
AnRead(a, ok) == IF ok THEN [a EXCEPT !.stage = "decoding"] ELSE AudioCatch(a, "body")

\* await audioContext.decodeAudioData(arrayBuffer), then the encoding and the return:
\* decoded is None when the data holds no decodable audio.
AnDecoded(a, decoded) ==
    IF decoded = None THEN AudioCatch(a, "decode")
    ELSE AnRequest(a, Some(EncodeAudio(decoded[1])))

\* for await (const chunk of response): a chunk with text
AnChunk(a) == [a EXCEPT !.fullText = a.fullText + 1]

\* The ways the stream ends: an API error, or the end of the text, which holds a
\* fenced JSON block (well-formed or not), bare JSON, or none.
StreamEnds == {"api error", "api error without message", "fenced json", "fenced garbage",
               "bare json", "no json"}

AnEnd(a, how) ==
    CASE how = "api error" -> AnThrow(a, ErrorOf("api"))
      [] how = "api error without message" -> AnThrow(a, ErrorOf(""))
      [] how = "fenced json" ->
            [a EXCEPT !.stage = "returned", !.result = Some([json |-> "fenced", rawAnalysis |-> a.fullText])]
      [] how = "fenced garbage" -> AnThrow(a, ErrorOf("Invalid format received from AI"))
      [] how = "bare json" ->
            [a EXCEPT !.stage = "returned", !.result = Some([json |-> "bare", rawAnalysis |-> a.fullText])]
      [] OTHER -> AnThrow(a, ErrorOf("Could not extract structured data from analysis stream."))

(***************************************************************************)
(* App (App.tsx): the state of the component and startAnalysis.            *)
(***************************************************************************)
KeyframeCount == 5

AppNew ==
    [phase |-> "IDLE", videoSources |-> <<>>, analysis |-> None, streamingLog |-> 0,
     progress |-> <<"">>, error |-> NULL]

\* ErrMessage without the fallback text.
ErrMessageAsIs(err) == err.message

\* setError(err.message || "Analysis failed."); setPhase(AnalysisPhase.ERROR)
ErrMessage(err) == IF err.message \in {NULL, ""} THEN "Analysis failed." ELSE err.message

AppCatch(s, err) == [s EXCEPT !.error = ErrMessage(err), !.phase = "ERROR"]

\* setAnalysis(result); setPhase(AnalysisPhase.COMPLETE)
AppComplete(s, result) == [s EXCEPT !.analysis = Some(result), !.phase = "COMPLETE"]

\* setPhase(AnalysisPhase.ANALYZING); setProgress(...)
AppAnalyzing(s) == [s EXCEPT !.phase = "ANALYZING", !.progress = <<"Initializing">>]

\* What startAnalysis does when the call it awaits has settled.
AppAfterAnalyze(s, a) ==
    CASE a.stage = "returned" -> AppComplete(s, a.result[1])
      [] a.stage = "threw" -> AppCatch(s, a.thrown[1])
      [] OTHER -> s

\* The event object video.onerror rejects with: it has no message.
MediaErrorEvent == [message |-> NULL]

\* One startAnalysis call: its sources, the index of the source being extracted,
\* framesPayload, and the two calls it awaits in turn. A source is known by its
\* place in the list: source.name is Name(k), source.url leads to its video.
Name(k) == <<"source", k>>

RunNew(sources) ==
    [pc            |-> "extracting",   \* extracting | analyzing
     sources       |-> sources,        \* sources.length
     idx           |-> 1,
     framesPayload |-> <<>>,
     video         |-> [readable |-> TRUE, duration |-> RInt(1), size |-> <<1280, 720>>,
                        keyframes |-> FALSE],
     ex            |-> ExNew(KeyframeCount),
     an            |-> AnNew]

\* startAnalysis up to its first await.
StartAnalysis(s, sources) ==
    [app |-> [s EXCEPT !.phase = "PROCESSING_VIDEO",
                       !.error = NULL,
                       !.analysis = None,
                       !.streamingLog = 0,
                       !.progress = <<"Extracting keyframes", Name(1)>>],
     run |-> Some(RunNew(sources))]

\* startAnalysis when the analyzeIncidentStream call it awaits moves on: once the
\* call has returned or thrown, startAnalysis returns too (run: None).
RunAfterAnalyze(s, run) ==
    IF run.an.stage \in {"returned", "threw"}
    THEN [app |-> AppAfterAnalyze(s, run.an), run |-> None]
    ELSE [app |-> s, run |-> Some(run)]

\* RunAfterExtract leaving the loop over the sources after the first one.
RunAfterExtractFirstOnly(s, run) ==
    CASE run.ex.settled = "resolved" ->
            LET payload == Append(run.framesPayload,
                                  [name |-> Name(run.idx), frames |-> run.ex.result,
                                   url |-> None])
            IN  RunAfterAnalyze(AppAnalyzing(s),
                                [run EXCEPT !.pc = "analyzing",
                                            !.framesPayload = payload,
                                            !.an = AnStart(payload, env)])
      [] run.ex.settled = "rejected" ->
            [app |-> AppCatch(s, MediaErrorEvent), run |-> None]
      [] OTHER -> [app |-> s, run |-> Some(run)]

\* startAnalysis when the extractFramesFromVideo call it awaits has settled:
\* framesPayload.push({ name, frames }) (no url), then the next source, or
\* ANALYZING and the call of analyzeIncidentStream; a rejection goes to the catch.
RunAfterExtract(s, run) ==
    CASE run.ex.settled = "resolved" ->
            LET payload == Append(run.framesPayload,
                                  [name |-> Name(run.idx), frames |-> run.ex.result,
                                   url |-> None])
            IN  IF run.idx < run.sources
                THEN [app |-> [s EXCEPT !.progress =
                                  <<"Extracting keyframes", Name(run.idx + 1)>>],
                      run |-> Some([run EXCEPT !.idx = run.idx + 1,
                                               !.framesPayload = payload,
                                               !.ex = ExNew(KeyframeCount)])]
                ELSE RunAfterAnalyze(AppAnalyzing(s),
                                     [run EXCEPT !.pc = "analyzing",
                                                 !.framesPayload = payload,
                                                 !.an = AnStart(payload, env)])
      [] run.ex.settled = "rejected" ->
            [app |-> AppCatch(s, MediaErrorEvent), run |-> None]
      [] OTHER -> [app |-> s, run |-> Some(run)]

(***************************************************************************)
(* AnalysisDashboard (components/AnalysisDashboard.tsx): the viewer and    *)
(* its overlay tools. A point is [x, y] in the overlay canvas's own        *)
(* coordinates, exact rationals.                                           *)
(***************************************************************************)
\* The box the viewport lays the video and the canvas out in (CSS pixels).
Layout == [width |-> 512, height |-> 288]

\* videoSources as the dashboard gets them: what each video reports once its
\* metadata has loaded.
DashSources ==
    <<[videoWidth |-> 1280, videoHeight |-> 720, duration |-> 10],
      [videoWidth |-> 1920, videoHeight |-> 1080, duration |-> 10]>>

\* Two of the three swatches of the colour picker.
Colors == {"#ef4444", "#10b981"}

\* The effect on [videoSources, activeSourceIdx]: the canvas takes the size the
\* video element reports at that moment, or 1280 x 720 while it reports none.
SizeCanvas(d) ==
    [d EXCEPT !.canvas = [width  |-> IF d.video.videoWidth # 0
                                     THEN d.video.videoWidth ELSE 1280,
                          height |-> IF d.video.videoHeight # 0
                                     THEN d.video.videoHeight ELSE 720]]

\* The state of the component after its first render and effects.
DashNew ==
    SizeCanvas(
    [activeSourceIdx |-> 0,
     videoDuration   |-> 1,
     zoom            |-> RInt(1),
     pan             |-> [x |-> RInt(0), y |-> RInt(0)],
     contrast        |-> 100,
     toolMode        |-> "view",       \* view | draw | scan
     isPanning       |-> FALSE,
     annotations     |-> <<>>,
     currentPath     |-> <<>>,
     annotationColor |-> "#ef4444",
     roiSelection    |-> None,
     isSelectingRoi  |-> FALSE,
     roiModalOpen    |-> FALSE,
     roiImage        |-> None,
     roiQuery        |-> "",
     roiResult       |-> None,
     isRoiAnalyzing  |-> FALSE,
     roiCalls        |-> {},           \* calls of analyzeRegionOfInterest in flight
     isDrawing       |-> FALSE,        \* isDrawing.current
     canvas          |-> [width |-> 300, height |-> 150],
     video           |-> [videoWidth |-> 0, videoHeight |-> 0]])

\* c.getBoundingClientRect(): the layout box under
\* transform: scale(zoom) translate(pan.x px, pan.y px), origin at its centre.
BoundingClientRect(d) ==
    [left   |-> RAdd(Rat(Layout.width, 2),
                     RMul(d.zoom, RSub(d.pan.x, Rat(Layout.width, 2)))),
     top    |-> RAdd(Rat(Layout.height, 2),
                     RMul(d.zoom, RSub(d.pan.y, Rat(Layout.height, 2)))),
     width  |-> RMul(d.zoom, RInt(Layout.width)),
     height |-> RMul(d.zoom, RInt(Layout.height))]

\* The mouse event of a pointer that is over the spot (layout pixels from the
\* top left corner of the picture) and has moved by `movement` since the last one.
MouseEventAt(d, spot, movement) ==
    LET r == BoundingClientRect(d)
    IN  [clientX   |-> RAdd(r.left, RMul(RInt(spot[1]), d.zoom)),
         clientY   |-> RAdd(r.top, RMul(RInt(spot[2]), d.zoom)),
         movementX |-> movement[1],
         movementY |-> movement[2]]

\* getCoords(e)
GetCoords(d, e) ==
    LET c == d.canvas
        r == BoundingClientRect(d)
        sx == RDiv(RInt(c.width), r.width)
        sy == RDiv(RInt(c.height), r.height)
    IN  [x |-> RMul(RSub(e.clientX, r.left), sx),
         y |-> RMul(RSub(e.clientY, r.top), sy)]

\* handleMouseDown
HandleMouseDown(d, e) ==
    IF d.toolMode = "draw"
    THEN [d EXCEPT !.isDrawing = TRUE, !.currentPath = <<GetCoords(d, e)>>]
    ELSE IF d.toolMode = "scan"
    THEN [d EXCEPT !.isSelectingRoi = TRUE,
                   !.roiSelection = Some([start |-> GetCoords(d, e), end |-> GetCoords(d, e)])]
    ELSE IF RLt(RInt(1), d.zoom)
    THEN [d EXCEPT !.isPanning = TRUE]
    ELSE d

\* handleMouseMove
HandleMouseMove(d, e) ==
    IF d.toolMode = "draw" /\ d.isDrawing
    THEN [d EXCEPT !.currentPath = Append(@, GetCoords(d, e))]
    ELSE IF d.toolMode = "scan" /\ d.isSelectingRoi /\ d.roiSelection # None
    THEN [d EXCEPT !.roiSelection = Some([@[1] EXCEPT !.end = GetCoords(d, e)])]
    ELSE IF d.isPanning /\ RLt(RInt(1), d.zoom)
    THEN [d EXCEPT !.pan = [x |-> RAdd(@.x, RDiv(RInt(e.movementX), d.zoom)),
                            y |-> RAdd(@.y, RDiv(RInt(e.movementY), d.zoom))]]
    ELSE d

\* The selection in the video's own pixels, as captureRoi measures it.
RoiRect(d) ==
    LET sel == d.roiSelection[1]
        scaleX == Rat(d.video.videoWidth, d.canvas.width)
        scaleY == Rat(d.video.videoHeight, d.canvas.height)
    IN  [x |-> RMul(RMin(sel.start.x, sel.end.x), scaleX),
         y |-> RMul(RMin(sel.start.y, sel.end.y), scaleY),
         w |-> RMul(RAbs(RSub(sel.end.x, sel.start.x)), scaleX),
         h |-> RMul(RAbs(RSub(sel.end.y, sel.start.y)), scaleY)]

\* TooSmall rejecting only what is small in both directions.
TooSmallBoth(w, h) == RLt(w, RInt(10)) /\ RLt(h, RInt(10))

\* if (w < 10 || h < 10) return
TooSmall(w, h) == RLt(w, RInt(10)) \/ RLt(h, RInt(10))

\* tempCanvas.width = w: a canvas has whole pixels, the fraction is dropped.
CanvasDimension(v) == RTrunc(v)

\* The picture toDataURL encodes: its size, and what drawImage put there.
RoiCrop(d, rect) ==
    [width  |-> CanvasDimension(rect.w),
     height |-> CanvasDimension(rect.h),
     of     |-> [source |-> d.activeSourceIdx, rect |-> rect],
     filter |-> d.contrast]

\* captureRoi
CaptureRoi(d) ==
    IF d.roiSelection = None
    THEN d
    ELSE LET rect == RoiRect(d)
         IN  IF TooSmall(rect.w, rect.h)
             THEN d
             ELSE IF ctx # NULL
             THEN [d EXCEPT !.roiImage = Some(RoiCrop(d, rect)),
                            !.roiModalOpen = TRUE,
                            !.roiSelection = None]
             ELSE d

\* HandleMouseUp putting the new stroke at the head of the list.
HandleMouseUpPrepending(d) ==
    LET done ==
          IF d.toolMode = "draw" /\ d.isDrawing
          THEN [d EXCEPT !.annotations =
                            IF Len(d.currentPath) > 0
                            THEN <<[points |-> d.currentPath,
                                    color |-> d.annotationColor]>> \o @
                            ELSE @,
                         !.currentPath = <<>>,
                         !.isDrawing = FALSE]
          ELSE IF d.toolMode = "scan" /\ d.isSelectingRoi /\ d.roiSelection # None
          THEN [CaptureRoi([d EXCEPT !.isSelectingRoi = FALSE]) EXCEPT !.toolMode = "view"]
          ELSE d
    IN  [done EXCEPT !.isPanning = FALSE]

\* handleMouseUp (also the handler of mouseleave)
HandleMouseUp(d) ==
    LET done ==
          IF d.toolMode = "draw" /\ d.isDrawing
          THEN [d EXCEPT !.annotations =
                            IF Len(d.currentPath) > 0
                            THEN Append(@, [points |-> d.currentPath,
                                            color |-> d.annotationColor])
                            ELSE @,
                         !.currentPath = <<>>,
                         !.isDrawing = FALSE]
          ELSE IF d.toolMode = "scan" /\ d.isSelectingRoi /\ d.roiSelection # None
          THEN [CaptureRoi([d EXCEPT !.isSelectingRoi = FALSE]) EXCEPT !.toolMode = "view"]
          ELSE d
    IN  [done EXCEPT !.isPanning = FALSE]

\* What the overlay effect strokes: the committed strokes and, in draw mode, the
\* open path, each only from two points on; and the box of the ROI selection.
OverlayStrokes(d) ==
    {d.annotations[k] : k \in {j \in 1..Len(d.annotations) : Len(d.annotations[j].points) >= 2}}
    \cup (IF d.toolMode = "draw" /\ Len(d.currentPath) >= 2
          THEN {[points |-> d.currentPath, color |-> d.annotationColor]}
          ELSE {})

OverlayRoiBox(d) ==
    IF d.roiSelection # None
    THEN Some([x |-> d.roiSelection[1].start.x,
               y |-> d.roiSelection[1].start.y,
               w |-> RSub(d.roiSelection[1].end.x, d.roiSelection[1].start.x),
               h |-> RSub(d.roiSelection[1].end.y, d.roiSelection[1].start.y)])
    ELSE None

\* resetTools
ResetTools(d) ==
    [d EXCEPT !.zoom = RInt(1),
              !.pan = [x |-> RInt(0), y |-> RInt(0)],
              !.contrast = 100,
              !.annotations = <<>>,
              !.toolMode = "view"]

\* ToggleTool going back to view mode from either tool.
ToggleToolViaView(d, tool) ==
    [d EXCEPT !.toolMode = IF @ = "view" THEN tool ELSE "view"]

\* The two tool buttons: setToolMode(toolMode === tool ? 'view' : tool)
ToggleTool(d, tool) == [d EXCEPT !.toolMode = IF @ = tool THEN "view" ELSE tool]

\* The zoom buttons: Math.max(1, zoom - 0.5), Math.min(5, zoom + 0.5)
ZoomOutBy(d) ==
    [d EXCEPT !.zoom = IF RLe(RInt(1), RSub(@, Rat(1, 2))) THEN RSub(@, Rat(1, 2)) ELSE RInt(1)]
ZoomInBy(d) == [d EXCEPT !.zoom = RMin(RInt(5), RAdd(@, Rat(1, 2)))]

\* The close button of the ROI modal
CloseRoi(d) == [d EXCEPT !.roiModalOpen = FALSE, !.roiResult = None, !.roiQuery = ""]

\* {roiModalOpen && roiImage && (...)}: the modal is rendered, over the whole
\* dashboard.
RoiModalShown(d) == d.roiModalOpen /\ d.roiImage # None

\* What analyzeRegionOfInterest(imageData, query) resolves with: the answer to
\* the query about that picture.
RoiAnalysisOf(call) == [question |-> call.query, of |-> call.imageData]

\* The onClick of the query button: the call starts, and without an API key it
\* has thrown before its first await.
SubmitRoiQuery(d, e) ==
    IF d.roiQuery = "" THEN d
    ELSE [d EXCEPT !.isRoiAnalyzing = TRUE,
                   !.roiCalls = IF e.apiKey
                                THEN @ \cup {[imageData |-> d.roiImage[1], query |-> d.roiQuery]}
                                ELSE @]

\* The call rejects: the promise has a then and no catch.
RoiRejected(d, call) == [d EXCEPT !.roiCalls = @ \ {call}]

\* .then(res => { setRoiResult(res); setIsRoiAnalyzing(false); })
RoiResolved(d, call) ==
    [d EXCEPT !.roiCalls = @ \ {call},
              !.roiResult = Some(RoiAnalysisOf(call)),
              !.isRoiAnalyzing = FALSE]

\* SelectSource resetting the tools for the new source.
SelectSourceResetting(d, idx) ==
    SizeCanvas([ResetTools(d) EXCEPT !.activeSourceIdx = idx,
                                     !.video = [videoWidth |-> 0, videoHeight |-> 0]])

\* A button of the source switcher: the video element takes the other url and
\* reports no size until its metadata has loaded; then the sizing effect runs.
SelectSource(d, idx) ==
    SizeCanvas([d EXCEPT !.activeSourceIdx = idx,
                         !.video = [videoWidth |-> 0, videoHeight |-> 0]])

\* 'loadedmetadata' of the viewer's video: onLoadedMetadata sets videoDuration.
VideoLoaded(d) ==
    LET s == DashSources[d.activeSourceIdx + 1]
    IN  [d EXCEPT !.video = [videoWidth |-> s.videoWidth, videoHeight |-> s.videoHeight],
                  !.videoDuration = s.duration]

\* The points the overlay holds: the open path and every committed stroke.
RECURSIVE PointsIn(_)
PointsIn(strokes) ==
    IF strokes = <<>> THEN 0 ELSE Len(Head(strokes).points) + PointsIn(Tail(strokes))

\* History: a stroke was open when the tool mode went from draw to view, and its
\* points are still in currentPath (no mouse-down has replaced them, no mouse-up
\* has taken them).
Abandoned(h, d, next, replaced) ==
    IF ~next.isDrawing \/ replaced THEN FALSE
    ELSE IF d.toolMode = "draw" /\ next.toolMode = "view" /\ Len(d.currentPath) > 0 THEN TRUE
    ELSE h.abandoned

(***************************************************************************)
(* The variables a specification does not use stay as they are here.      *)
(***************************************************************************)
SamplerIdle == src = [readable |-> TRUE, duration |-> RInt(1), size |-> <<1280, 720>>,
                      keyframes |-> FALSE]
               /\ ex = ExNew(2)
AnalyzeIdle == an = AnNew
AppIdle == app = AppNew /\ runs = EmptyBag
EnvIdle == env = [apiKey |-> TRUE, audioContext |-> TRUE]
ToolsIdle == dash = DashNew /\ hist = [abandoned |-> FALSE]

(***************************************************************************)
(* SpecSampler: one call of extractFramesFromVideo(videoUrl, numFrames)    *)
(* for every resource and every numFrames in 2..MaxFrames.                 *)
(***************************************************************************)
SamplerInit ==
    /\ src \in Resources
    /\ ex \in {ExNew(n) : n \in 2..MaxFrames}
    /\ AnalyzeIdle /\ AppIdle /\ EnvIdle /\ ToolsIdle

LoadedMetadata ==
    /\ ex.stage = "loading"
    /\ ex' = ExLoadedMetadata(ex, src)
    /\ UNCHANGED <<src, an, env, app, runs, toolVars>>

Seeked ==
    /\ ex.stage = "seeking"
    /\ ex.listeners > 0
    /\ ex' = ExSeeked(ex, Settled(src, ex.currentTime))
    /\ UNCHANGED <<src, an, env, app, runs, toolVars>>

VideoError ==
    /\ ~src.readable
    /\ ex.stage \in {"loading", "seeking", "threw"}
    /\ ex' = ExError(ex)
    /\ UNCHANGED <<src, an, env, app, runs, toolVars>>

SamplerNext == LoadedMetadata \/ Seeked \/ VideoError

SpecSampler == SamplerInit /\ [][SamplerNext]_vars

(***************************************************************************)
(* SpecSamplerFair: one call for every resource, also one whose duration   *)
(* is infinite, and every numFrames in 1..MaxFrames. The metadata loads    *)
(* unless an error comes first, and every seek that was issued completes.  *)
(***************************************************************************)
UnboundedResources ==
    [readable : {TRUE}, duration : {Infinity}, size : NativeSizes, keyframes : BOOLEAN]

SamplerFairInit ==
    /\ src \in Resources \cup UnboundedResources
    /\ ex \in {ExNew(n) : n \in 1..MaxFrames}
    /\ AnalyzeIdle /\ AppIdle /\ EnvIdle /\ ToolsIdle

SpecSamplerFair ==
    /\ SamplerFairInit
    /\ [][SamplerNext]_vars
    /\ WF_vars(LoadedMetadata)
    /\ WF_vars(Seeked)

(***************************************************************************)
(* SpecAnalyze: one call of analyzeIncidentStream, made as startAnalysis   *)
(* makes it (after setPhase(ANALYZING), inside its try), for every list of *)
(* SourceData the interface admits: with or without a url on a source.     *)
(***************************************************************************)
FrameLists ==
    {<<>>,
     <<[data |-> [at |-> RInt(0), size |-> <<640, 360>>], timestamp |-> Rat(1, 1)],
       [data |-> [at |-> RInt(2), size |-> <<640, 360>>], timestamp |-> Rat(10, 3)]>>,
     <<[data |-> [at |-> RInt(5), size |-> <<640, 360>>], timestamp |-> Rat(5, 1)]>>}
SourceData == [name : {Name(1)}, frames : FrameLists, url : {None, Some("blob:video")}]
SourceDatas == UNION {[1..n -> SourceData] : n \in 0..MaxSources}
Envs == [apiKey : BOOLEAN, audioContext : BOOLEAN]

AnalyzeInit ==
    /\ an = AnNew
    /\ env \in Envs
    /\ app = [AppNew EXCEPT !.phase = "PROCESSING_VIDEO"]
    /\ runs = EmptyBag
    /\ SamplerIdle /\ ToolsIdle

CallAnalyze ==
    /\ an.stage = "idle"
    /\ \E sources \in SourceDatas :
          /\ an' = AnStart(sources, env)
          /\ app' = AppAfterAnalyze(AppAnalyzing(app), an')
    /\ UNCHANGED <<toolVars, samplerVars, env, runs>>

AudioFetched ==
    /\ an.stage = "fetching"
    /\ \E ok \in BOOLEAN : an' = AnFetched(an, ok)
    /\ app' = AppAfterAnalyze(app, an')
    /\ UNCHANGED <<toolVars, samplerVars, env, runs>>

AudioRead ==
    /\ an.stage = "reading"
    /\ \E ok \in BOOLEAN : an' = AnRead(an, ok)
    /\ app' = AppAfterAnalyze(app, an')
    /\ UNCHANGED <<toolVars, samplerVars, env, runs>>

AudioDecoded ==
    /\ an.stage = "decoding"
    /\ \E decoded \in {None} \cup {Some(b) : b \in AudioBuffers} : an' = AnDecoded(an, decoded)
    /\ app' = AppAfterAnalyze(app, an')
    /\ UNCHANGED <<toolVars, samplerVars, env, runs>>

StreamChunk ==
    /\ an.stage = "streaming"
    /\ an.fullText < MaxChunks
    /\ an' = AnChunk(an)
    /\ app' = [app EXCEPT !.streamingLog = an'.fullText]
    /\ UNCHANGED <<toolVars, samplerVars, env, runs>>

StreamEnd ==
    /\ an.stage = "streaming"
    /\ \E how \in StreamEnds :
          /\ an.fullText = 0 => how \in {"api error", "api error without message", "no json"}
          /\ an' = AnEnd(an, how)
          /\ app' = AppAfterAnalyze(app, an')
    /\ UNCHANGED <<toolVars, samplerVars, env, runs>>

AnalyzeNext ==
    CallAnalyze \/ AudioFetched \/ AudioRead \/ AudioDecoded \/ StreamChunk \/ StreamEnd

SpecAnalyze == AnalyzeInit /\ [][AnalyzeNext]_vars

(***************************************************************************)
(* SpecApp: the App component. The uploader (shown while the phase is      *)
(* IDLE) starts runs; the header can return to IDLE at any time, so runs   *)
(* overlap; at most MaxRuns are in flight. A run has one source or two.    *)
(***************************************************************************)
AppResources ==
    {[readable |-> TRUE, duration |-> RInt(10), size |-> <<1280, 720>>, keyframes |-> TRUE]}
SourceCounts == {1, 2}

InFlight == BagToSet(runs)

\* The bag with one copy of run replaced by its next state, or taken out.
Replace(run, next) ==
    (runs (-) SetToBag({run})) (+) (IF next = None THEN EmptyBag ELSE SetToBag({next[1]}))

AppInit ==
    /\ app = AppNew
    /\ runs = EmptyBag
    /\ env \in [apiKey : BOOLEAN, audioContext : {TRUE}]
    /\ SamplerIdle /\ AnalyzeIdle /\ ToolsIdle

\* handleAnalysisStart(filesData): the staged files, at least one
HandleAnalysisStart ==
    /\ app.phase = "IDLE"
    /\ BagCardinality(runs) < MaxRuns
    /\ \E n \in SourceCounts :
          LET st == StartAnalysis([app EXCEPT !.videoSources = <<"file", n>>], n)
          IN  app' = st.app /\ runs' = runs (+) SetToBag({st.run[1]})
    /\ UNCHANGED <<toolVars, samplerVars, an, env>>

\* handleDemoSelect(urls)
HandleDemoSelect ==
    /\ app.phase = "IDLE"
    /\ BagCardinality(runs) < MaxRuns
    /\ \E n \in SourceCounts :
          LET st == StartAnalysis([app EXCEPT !.videoSources = <<"Demo Feed", n>>], n)
          IN  app' = st.app /\ runs' = runs (+) SetToBag({st.run[1]})
    /\ UNCHANGED <<toolVars, samplerVars, an, env>>

\* 'loadedmetadata' of the video a run is extracting from
RunLoadedMetadata ==
    /\ \E run \in InFlight, r \in AppResources :
          /\ run.pc = "extracting" /\ run.ex.stage = "loading"
          /\ runs' = Replace(run, Some([run EXCEPT !.video = r,
                                                  !.ex = ExLoadedMetadata(run.ex, r)]))
    /\ UNCHANGED <<toolVars, samplerVars, an, env, app>>

\* 'seeked' of the video a run is extracting from
RunSeeked ==
    /\ \E run \in InFlight :
          /\ run.pc = "extracting" /\ run.ex.stage = "seeking" /\ run.ex.listeners > 0
          /\ LET heard == [run EXCEPT !.ex = ExSeeked(run.ex, Settled(run.video, run.ex.currentTime))]
                 next == RunAfterExtract(app, heard)
             IN  app' = next.app /\ runs' = Replace(run, next.run)
    /\ UNCHANGED <<toolVars, samplerVars, an, env>>

\* 'error' of the video a run is extracting from
RunVideoError ==
    /\ \E run \in InFlight :
          /\ run.pc = "extracting" /\ run.ex.stage \in {"loading", "seeking"}
          /\ LET next == RunAfterExtract(app, [run EXCEPT !.ex = ExError(run.ex)])
             IN  app' = next.app /\ runs' = Replace(run, next.run)
    /\ UNCHANGED <<toolVars, samplerVars, an, env>>

\* a chunk of the response stream: onStreamUpdate(fullText) is setStreamingLog
RunStreamChunk ==
    /\ \E run \in InFlight :
          /\ run.pc = "analyzing" /\ run.an.stage = "streaming"
          /\ run.an.fullText < MaxChunks
          /\ LET a == AnChunk(run.an)
             IN  /\ app' = [app EXCEPT !.streamingLog = a.fullText]
                 /\ runs' = Replace(run, Some([run EXCEPT !.an = a]))
    /\ UNCHANGED <<toolVars, samplerVars, an, env>>

\* the response stream ends
RunStreamEnd ==
    /\ \E run \in InFlight, how \in StreamEnds :
          /\ run.pc = "analyzing" /\ run.an.stage = "streaming"
          /\ run.an.fullText = 0 => how \in {"api error", "api error without message", "no json"}
          /\ LET next == RunAfterAnalyze(app, [run EXCEPT !.an = AnEnd(run.an, how)])
             IN  app' = next.app /\ runs' = Replace(run, next.run)
    /\ UNCHANGED <<toolVars, samplerVars, an, env>>

\* the logo in the header: onClick={() => setPhase(AnalysisPhase.IDLE)}
HeaderClick ==
    /\ app' = [app EXCEPT !.phase = "IDLE"]
    /\ UNCHANGED <<toolVars, samplerVars, an, env, runs>>

\* "New Case", shown while the phase is COMPLETE
NewCase ==
    /\ app.phase = "COMPLETE"
    /\ app' = [app EXCEPT !.phase = "IDLE"]
    /\ UNCHANGED <<toolVars, samplerVars, an, env, runs>>

\* "Return to Dashboard", shown while the phase is ERROR
ReturnToDashboard ==
    /\ app.phase = "ERROR"
    /\ app' = [app EXCEPT !.phase = "IDLE"]
    /\ UNCHANGED <<toolVars, samplerVars, an, env, runs>>

AppNext ==
    \/ HandleAnalysisStart \/ HandleDemoSelect
    \/ RunLoadedMetadata \/ RunSeeked \/ RunVideoError
    \/ RunStreamChunk \/ RunStreamEnd
    \/ HeaderClick \/ NewCase \/ ReturnToDashboard

SpecApp == AppInit /\ [][AppNext]_vars

\* One run from the uploader to its end, the user touching nothing else.
RunNext ==
    \/ HandleAnalysisStart \/ HandleDemoSelect
    \/ RunLoadedMetadata \/ RunSeeked \/ RunVideoError
    \/ RunStreamChunk \/ RunStreamEnd

SpecRun == AppInit /\ [][RunNext]_vars

(***************************************************************************)
(* SpecDraw and SpecScan: the dashboard under the user's pointer and       *)
(* buttons, in any order. The pointer visits the Spots of the picture; the *)
(* overlay holds at most MaxPoints points, the zoom stays within MaxZoom   *)
(* and the pan within MaxPan. While the ROI modal is shown it covers the   *)
(* viewer, and the pointer does not reach it.                              *)
(***************************************************************************)
Spots == {<<0, 0>>, <<4, 3>>, <<4, 4>>}
Movements == {<<6, 0>>}

ToolsInit ==
    /\ dash = DashNew
    /\ hist = [abandoned |-> FALSE]
    /\ SamplerIdle /\ AnalyzeIdle /\ AppIdle /\ EnvIdle

WithinBounds(d) ==
    /\ PointsIn(d.annotations) + Len(d.currentPath) <= MaxPoints
    /\ RLe(d.zoom, RInt(MaxZoom))
    /\ RLe(RAbs(d.pan.x), RInt(MaxPan)) /\ RLe(RAbs(d.pan.y), RInt(MaxPan))

\* hist after the step to next; replaced: the step put a new path in currentPath.
HistAfter(next, replaced) ==
    [hist EXCEPT !.abandoned = Abandoned(hist, dash, next, replaced)]

MouseDown ==
    /\ ~RoiModalShown(dash)
    /\ \E spot \in Spots :
          LET next == HandleMouseDown(dash, MouseEventAt(dash, spot, <<0, 0>>))
          IN  /\ WithinBounds(next)
              /\ dash' = next
              /\ hist' = HistAfter(next, dash.toolMode = "draw")
    /\ UNCHANGED <<samplerVars, an, env, app, runs>>

MouseMove ==
    /\ ~RoiModalShown(dash)
    /\ \E spot \in Spots, movement \in Movements :
          LET next == HandleMouseMove(dash, MouseEventAt(dash, spot, movement))
          IN  /\ WithinBounds(next)
              /\ dash' = next
              /\ hist' = HistAfter(next, FALSE)
    /\ UNCHANGED <<samplerVars, an, env, app, runs>>

MouseUp ==
    /\ ~RoiModalShown(dash)
    /\ dash' = HandleMouseUp(dash)
    /\ hist' = HistAfter(HandleMouseUp(dash), FALSE)
    /\ UNCHANGED <<samplerVars, an, env, app, runs>>

\* onMouseLeave={handleMouseUp}
MouseLeave ==
    /\ ~RoiModalShown(dash)
    /\ dash' = HandleMouseUp(dash)
    /\ hist' = HistAfter(HandleMouseUp(dash), FALSE)
    /\ UNCHANGED <<samplerVars, an, env, app, runs>>

ToggleDraw ==
    /\ dash' = ToggleTool(dash, "draw")
    /\ hist' = HistAfter(ToggleTool(dash, "draw"), FALSE)
    /\ UNCHANGED <<samplerVars, an, env, app, runs>>

ToggleScan ==
    /\ dash' = ToggleTool(dash, "scan")
    /\ hist' = HistAfter(ToggleTool(dash, "scan"), FALSE)
    /\ UNCHANGED <<samplerVars, an, env, app, runs>>

\* a swatch of the colour picker, shown in draw mode
PickColor ==
    /\ dash.toolMode = "draw"
    /\ \E c \in Colors : dash' = [dash EXCEPT !.annotationColor = c]
    /\ UNCHANGED <<samplerVars, an, env, app, runs, hist>>

ZoomIn ==
    /\ WithinBounds(ZoomInBy(dash))
    /\ dash' = ZoomInBy(dash)
    /\ UNCHANGED <<samplerVars, an, env, app, runs, hist>>

ZoomOut ==
    /\ dash' = ZoomOutBy(dash)
    /\ UNCHANGED <<samplerVars, an, env, app, runs, hist>>

ResetToolsClick ==
    /\ dash' = ResetTools(dash)
    /\ hist' = HistAfter(ResetTools(dash), FALSE)
    /\ UNCHANGED <<samplerVars, an, env, app, runs>>

\* the close button of the ROI modal, shown while roiModalOpen && roiImage
CloseRoiModal ==
    /\ dash.roiModalOpen /\ dash.roiImage # None
    /\ dash' = CloseRoi(dash)
    /\ UNCHANGED <<samplerVars, an, env, app, runs, hist>>

\* a button of the source switcher, shown while videoSources.length > 1
SwitchSource ==
    /\ Len(DashSources) > 1
    /\ \E idx \in 0..(Len(DashSources) - 1) :
          /\ idx # dash.activeSourceIdx
          /\ dash' = SelectSource(dash, idx)
    /\ UNCHANGED <<samplerVars, an, env, app, runs, hist>>

ViewerLoadedMetadata ==
    /\ dash.video.videoWidth = 0
    /\ dash' = VideoLoaded(dash)
    /\ UNCHANGED <<samplerVars, an, env, app, runs, hist>>

\* the text field of the ROI modal
Queries == {"", "plate"}

TypeRoiQuery ==
    /\ RoiModalShown(dash)
    /\ \E q \in Queries : q # dash.roiQuery /\ dash' = [dash EXCEPT !.roiQuery = q]
    /\ UNCHANGED <<samplerVars, an, env, app, runs, hist>>

\* the query button of the ROI modal: disabled={isRoiAnalyzing || !roiQuery}
SubmitRoiQueryClick ==
    /\ RoiModalShown(dash)
    /\ ~dash.isRoiAnalyzing /\ dash.roiQuery # ""
    /\ dash' = SubmitRoiQuery(dash, env)
    /\ UNCHANGED <<samplerVars, an, env, app, runs, hist>>

RoiQueryResolves ==
    /\ \E call \in dash.roiCalls : dash' = RoiResolved(dash, call)
    /\ UNCHANGED <<samplerVars, an, env, app, runs, hist>>

RoiQueryRejects ==
    /\ \E call \in dash.roiCalls : dash' = RoiRejected(dash, call)
    /\ UNCHANGED <<samplerVars, an, env, app, runs, hist>>

\* Sessions with the annotation tool.
DrawNext ==
    \/ MouseDown \/ MouseMove \/ MouseUp \/ MouseLeave
    \/ ToggleDraw \/ PickColor \/ ResetToolsClick

SpecDraw == ToolsInit /\ [][DrawNext]_vars

\* Sessions with the scan tool, the zoom and the source switcher.
ScanNext ==
    \/ MouseDown \/ MouseMove \/ MouseUp \/ MouseLeave
    \/ ToggleScan \/ ResetToolsClick
    \/ ZoomIn \/ ZoomOut
    \/ CloseRoiModal \/ SwitchSource \/ ViewerLoadedMetadata

SpecScan == ToolsInit /\ [][ScanNext]_vars

\* Sessions with both tools, in the colour the picker starts with.
ModesNext ==
    \/ MouseDown \/ MouseMove \/ MouseUp \/ MouseLeave
    \/ ToggleDraw \/ ToggleScan \/ ResetToolsClick

SpecModes == ToolsInit /\ [][ModesNext]_vars

\* Sessions with the scan tool, the source switcher and the queries of the
\* ROI modal, with and without an API key.
RoiInit ==
    /\ dash = DashNew
    /\ hist = [abandoned |-> FALSE]
    /\ env \in [apiKey : BOOLEAN, audioContext : {TRUE}]
    /\ SamplerIdle /\ AnalyzeIdle /\ AppIdle

RoiNext ==
    \/ SwitchSource \/ ViewerLoadedMetadata
    \/ MouseDown \/ MouseMove \/ MouseUp \/ ToggleScan
    \/ CloseRoiModal \/ TypeRoiQuery \/ SubmitRoiQueryClick
    \/ RoiQueryResolves \/ RoiQueryRejects

SpecRoi == RoiInit /\ [][RoiNext]_vars

(***************************************************************************)
(* The claims.                                                             *)
(***************************************************************************)
Window(d) == [lo |-> RMul(Rat(1, 10), d), hi |-> RMul(Rat(9, 10), d)]

\* C1: for a readable source of duration d and numFrames N >= 2 the call is never
\* rejected, and what it resolves with is exactly N frames whose timestamps are
\* strictly increasing and lie inside [0.1 d, 0.9 d].
C1_ExactlyNFramesInWindow ==
    src.readable =>
        /\ ex.settled # "rejected"
        /\ ex.settled = "resolved" =>
              /\ Len(ex.result) = ex.numFrames
              /\ \A k \in 1..(Len(ex.result) - 1) :
                    RLt(ex.result[k].timestamp, ex.result[k + 1].timestamp)
              /\ \A k \in 1..Len(ex.result) :
                    /\ RLe(Window(src.duration).lo, ex.result[k].timestamp)
                    /\ RLe(ex.result[k].timestamp, Window(src.duration).hi)

C1_Witness ==
    /\ src.readable /\ src.keyframes
    /\ ex.settled = "resolved"
    /\ ex.numFrames = 5
    /\ Len(ex.result) = 5

\* 0.1 d + i (0.8 d) / (N - 1)
RequestedTime(d, n, i) ==
    RAdd(RMul(Rat(1, 10), d), RDiv(RMul(RInt(i), RMul(Rat(8, 10), d)), RInt(n - 1)))

\* C2: the i-th recorded timestamp is the requested seek target
\* 0.1 d + i (0.8 d)/(N - 1), whatever position the decoder settled on; the first
\* is 0.1 d and the last 0.9 d; for d = 10 and N = 5 they are 1, 3, 5, 7, 9.
C2_TimestampIsRequestedTime ==
    /\ \A k \in 1..Len(ex.frames) :
          ex.frames[k].timestamp = RequestedTime(src.duration, ex.numFrames, k - 1)
    /\ (ex.settled = "resolved" /\ Len(ex.result) > 0) =>
          /\ ex.result[1].timestamp = Window(src.duration).lo
          /\ ex.result[Len(ex.result)].timestamp = Window(src.duration).hi
    /\ (ex.settled = "resolved" /\ src.duration = RInt(10) /\ ex.numFrames = 5) =>
          [k \in 1..Len(ex.result) |-> ex.result[k].timestamp]
              = <<RInt(1), RInt(3), RInt(5), RInt(7), RInt(9)>>

C2_Witness ==
    /\ ex.settled = "resolved"
    /\ src.duration = RInt(10) /\ ex.numFrames = 5
    /\ \E k \in 1..Len(ex.result) : ex.result[k].data.at # ex.result[k].timestamp

\* C3: when the video of a run that is extracting frames raises an error, the
\* run ends there (it is taken out of the runs in flight and no other run
\* changes, so it never reaches ANALYZING or COMPLETE), the phase becomes ERROR
\* and the error message is not empty; and from ERROR "Return to Dashboard" is
\* available, leads to IDLE, and from there a new analysis can be started,
\* which clears the error.
C3_SourceErrorPropagates ==
    /\ [][RunVideoError =>
            /\ app'.phase = "ERROR"
            /\ app'.error \notin {NULL, ""}
            /\ runs' \sqsubseteq runs
            /\ BagCardinality(runs') = BagCardinality(runs) - 1]_vars
    /\ [](app.phase = "ERROR" =>
            /\ ENABLED ReturnToDashboard
            /\ BagCardinality(runs) < MaxRuns)
    /\ [][ReturnToDashboard => app'.phase = "IDLE" /\ runs' = runs]_vars
    /\ []((app.phase = "IDLE" /\ BagCardinality(runs) < MaxRuns) =>
            ENABLED HandleAnalysisStart)
    /\ [][HandleAnalysisStart =>
            /\ app'.phase = "PROCESSING_VIDEO"
            /\ app'.error = NULL
            /\ BagCardinality(runs') = BagCardinality(runs) + 1]_vars

\* The second source of the only run failed while its frames were extracted.
C3_Witness ==
    /\ app.phase = "ERROR"
    /\ app.error = "Analysis failed."
    /\ app.progress = <<"Extracting keyframes", Name(2)>>
    /\ runs = EmptyBag


HasAudioPart(parts) ==
    \E k \in 1..Len(parts) : parts[k].kind = "inlineData" /\ parts[k].mimeType = "audio/wav"

\* What analyzeIncidentStream throws for reasons other than the audio.
AnalysisFailures ==
    {"API Key not found", "api", "", "Invalid format received from AI",
     "Could not extract structured data from analysis stream."}

\* C4: a failure of any step of extractAudioFromVideo is absorbed: the function
\* returns null, the request is built without an audio part and is sent, and the
\* phase is ERROR only when the analysis itself threw.
C4_AudioFailureAbsorbed ==
    an.audioFailure # NULL =>
        /\ an.audioBase64 = None
        /\ an.stage \in {"streaming", "returned", "threw"}
        /\ an.parts = BuildParts(an.sources, None)
        /\ ~HasAudioPart(an.parts)
        /\ an.stage = "streaming" => app.phase = "ANALYZING"
        /\ an.stage = "returned" => app.phase = "COMPLETE"
        /\ app.phase = "ERROR" => an.stage = "threw"
        /\ an.stage = "threw" => an.thrown[1].message \in AnalysisFailures \ {"API Key not found"}

C4_Witness ==
    /\ an.audioFailure = "decode"
    /\ an.stage = "returned"
    /\ app.phase = "COMPLETE"

Ascii(b, from) == <<b[from + 1], b[from + 2], b[from + 3], b[from + 4]>>

\* C5: the container starts with the 44-byte header 'RIFF', chunkSize =
\* dataSize + 36, 'WAVE', 'fmt ', 16, format 1, numChannels, sampleRate,
\* byteRate = sampleRate * numChannels * 2, blockAlign = numChannels * 2,
\* bitsPerSample 16, 'data', dataSize, all little-endian, and the samples start
\* at byte 44.
C5_WavHeaderLayout ==
    an.audioBase64 # None =>
        LET wav == an.audioBase64[1].decoded
            h == wav.header
            c == wav.of.numberOfChannels
            dataSize == wav.byteLength - 44
        IN  /\ Len(h) = 44
            /\ wav.dataStart = 44
            /\ Ascii(h, 0) = <<82, 73, 70, 70>>
            /\ ReadLE(h, 4, 4) = dataSize + 36
            /\ Ascii(h, 8) = <<87, 65, 86, 69>>
            /\ Ascii(h, 12) = <<102, 109, 116, 32>>
            /\ ReadLE(h, 16, 4) = 16
            /\ ReadLE(h, 20, 2) = 1
            /\ ReadLE(h, 22, 2) = c
            /\ ReadLE(h, 24, 4) = wav.of.sampleRate
            /\ ReadLE(h, 28, 4) = wav.of.sampleRate * c * 2
            /\ ReadLE(h, 32, 2) = c * 2
            /\ ReadLE(h, 34, 2) = 16
            /\ Ascii(h, 36) = <<100, 97, 116, 97>>
            /\ ReadLE(h, 40, 4) = dataSize

C5_Witness ==
    /\ an.audioBase64 # None
    /\ an.audioBase64[1].decoded.of.numberOfChannels = 2
    /\ an.audioBase64[1].decoded.of.length = 2

\* C6: the clip keeps numSamples = min(totalSamples, 60 * sampleRate) frames per
\* channel, the header's dataSize is 2 * numChannels * numSamples, the container
\* is 44 + dataSize bytes, and numSamples <= 60 * 16000.
C6_ClipCappedAt60s ==
    an.audioBase64 # None =>
        LET wav == an.audioBase64[1].decoded
            c == wav.of.numberOfChannels
            dataSize == ReadLE(wav.header, 40, 4)
            numSamples == wav.offset
            cap == 60 * wav.of.sampleRate
        IN  /\ numSamples = (IF wav.of.length < cap THEN wav.of.length ELSE cap)
            /\ dataSize = 2 * c * numSamples
            /\ wav.byteLength = 44 + dataSize
            /\ wav.pos = wav.byteLength
            /\ wav.of.sampleRate = 16000
            /\ numSamples <= 60 * 16000

C6_Witness ==
    /\ an.audioBase64 # None
    /\ an.audioBase64[1].decoded.of.length > 60 * 16000
    /\ an.audioBase64[1].decoded.offset = 60 * 16000

\* A mouse-up (or mouse-leave, the same handler) on the viewer.
PointerUp == MouseUp \/ MouseLeave

\* C7: a stroke is appended to the committed annotations only from a path with
\* at least one point after its start point; and a pointer-up that ends a stroke
\* of the start point alone leaves the committed annotations as they were.
C7_StrokeNeedsPointAfterStart ==
    [][/\ Len(dash'.annotations) > Len(dash.annotations) => Len(dash.currentPath) >= 2
       /\ (PointerUp /\ dash.toolMode = "draw" /\ dash.isDrawing /\ Len(dash.currentPath) = 1)
             => dash'.annotations = dash.annotations]_vars

\* C8: once the tool mode has gone from draw to view with a stroke open, no step
\* appends to the committed annotations as long as the points of that stroke are
\* held: not the switch, not the pointer-up after it, not any later gesture.
C8_AbandonedStrokeNeverCommitted ==
    [][hist.abandoned => Len(dash'.annotations) <= Len(dash.annotations)]_vars

\* A scan gesture is open: a mouse-down in scan mode has begun a selection.
ScanGestureOpen(d) == d.toolMode = "scan" /\ d.isSelectingRoi /\ d.roiSelection # None

\* The size of the selection in the video's native pixels.
NativeSize(d) ==
    LET sel == d.roiSelection[1]
    IN  [w |-> RMul(RAbs(RSub(sel.end.x, sel.start.x)),
                    Rat(d.video.videoWidth, d.canvas.width)),
         h |-> RMul(RAbs(RSub(sel.end.y, sel.start.y)),
                    Rat(d.video.videoHeight, d.canvas.height))]

AtLeastTenByTen(n) == RLe(RInt(10), n.w) /\ RLe(RInt(10), n.h)

\* C9 (amended): a pointer-up that ends a scan gesture produces a region of
\* interest (crop stored, modal opened, selection cleared) if and only if the
\* selection is at least 10 x 10 in the video's native pixels, and nothing else
\* changes the crop; the crop's width and height are the selection's native width
\* and height with the fraction dropped.
C9_RoiIffTenByTenWholePixels ==
    /\ [][(PointerUp /\ ScanGestureOpen(dash)) =>
            IF AtLeastTenByTen(NativeSize(dash))
            THEN /\ dash'.roiImage # None
                 /\ dash'.roiModalOpen
                 /\ dash'.roiSelection = None
                 /\ dash'.roiImage[1].width = RTrunc(NativeSize(dash).w)
                 /\ dash'.roiImage[1].height = RTrunc(NativeSize(dash).h)
            ELSE /\ dash'.roiImage = dash.roiImage
                 /\ dash'.roiModalOpen = dash.roiModalOpen
                 /\ dash'.roiSelection = dash.roiSelection]_vars
    /\ [][dash'.roiImage # dash.roiImage =>
            PointerUp /\ ScanGestureOpen(dash) /\ AtLeastTenByTen(NativeSize(dash))]_vars

\* C9 as stated: the crop's width and height equal the selection's native width
\* and height.
C9_RoiIffTenByTenExact ==
    [][(PointerUp /\ ScanGestureOpen(dash)) =>
          IF AtLeastTenByTen(NativeSize(dash))
          THEN /\ dash'.roiImage # None
               /\ dash'.roiModalOpen
               /\ dash'.roiSelection = None
               /\ RInt(dash'.roiImage[1].width) = NativeSize(dash).w
               /\ RInt(dash'.roiImage[1].height) = NativeSize(dash).h
          ELSE /\ dash'.roiImage = dash.roiImage
               /\ dash'.roiModalOpen = dash.roiModalOpen
               /\ dash'.roiSelection = dash.roiSelection]_vars

\* A crop of 15 x 11 pixels taken from a selection of 15 x 11.25 native pixels.
C9_Witness ==
    /\ dash.roiModalOpen
    /\ dash.roiImage # None
    /\ dash.roiImage[1].width = 15
    /\ dash.roiImage[1].height = 11
    /\ dash.roiImage[1].of.rect.h = Rat(45, 4)

\* C10: a pointer-up that ends a scan gesture whose selection is below 10 x 10
\* native pixels leaves no trace: no crop, the modal as it was, no selection
\* stored or drawn on the overlay, and the tool mode as before.
C10_DegenerateScanLeavesNoTrace ==
    [][(PointerUp /\ ScanGestureOpen(dash) /\ ~AtLeastTenByTen(NativeSize(dash))) =>
          /\ dash'.roiImage = dash.roiImage
          /\ dash'.roiModalOpen = dash.roiModalOpen
          /\ dash'.roiSelection = None
          /\ OverlayRoiBox(dash') = None
          /\ dash'.toolMode = dash.toolMode]_vars

\* A gesture of the active tool is in progress.
GestureInProgress(d) ==
    \/ d.toolMode = "draw" /\ d.isDrawing
    \/ d.toolMode = "scan" /\ d.isSelectingRoi

\* C11: a step that changes the tool mode while a gesture is in progress, other
\* than the pointer-up that ends the gesture, leaves none of the gesture's state:
\* no open path, no drawing flag, no selection rectangle, no selecting flag.
C11_ModeSwitchCancelsGesture ==
    [][(GestureInProgress(dash) /\ dash'.toolMode # dash.toolMode /\ ~PointerUp) =>
          /\ dash'.currentPath = <<>>
          /\ ~dash'.isDrawing
          /\ dash'.roiSelection = None
          /\ ~dash'.isSelectingRoi]_vars

\* C12: the tool mode is always one of view, draw and scan; the button of the
\* active tool sets it to view, and the button of another tool makes that tool
\* the mode, whatever the mode was.
C12_OneModeAndToggle ==
    /\ [](dash.toolMode \in {"view", "draw", "scan"})
    /\ [][ToggleDraw =>
            dash'.toolMode = IF dash.toolMode = "draw" THEN "view" ELSE "draw"]_vars
    /\ [][ToggleScan =>
            dash'.toolMode = IF dash.toolMode = "scan" THEN "view" ELSE "scan"]_vars

\* The scan tool was taken up straight from draw mode: a stroke is still open.
C12_Witness ==
    /\ dash.toolMode = "scan"
    /\ dash.isDrawing
    /\ Len(dash.currentPath) = 2

\* C13: the reset button clears the overlay state: the committed annotations,
\* the stroke in progress, the ROI selection and the captured ROI, and the tool
\* mode is view afterwards.
C13_ResetClearsOverlay ==
    [][ResetToolsClick =>
          /\ dash'.annotations = <<>>
          /\ dash'.currentPath = <<>>
          /\ ~dash'.isDrawing
          /\ dash'.roiSelection = None
          /\ ~dash'.isSelectingRoi
          /\ dash'.roiImage = None
          /\ dash'.toolMode = "view"]_vars

\* A step of the uploader that starts a run.
StartsRun == HandleAnalysisStart \/ HandleDemoSelect

\* C14: once the session is back in IDLE, a run started before that no longer
\* sets the phase, the analysis or the error: they change only when a new run
\* is started.
C14_StaleRunDropped ==
    [][(app.phase = "IDLE" /\ ~StartsRun) =>
          /\ app'.phase = "IDLE"
          /\ app'.analysis = app.analysis
          /\ app'.error = app.error]_vars

\* The mouse event of a pointer at the exact centre of the displayed picture.
CentreEvent(d) == MouseEventAt(d, <<Layout.width \div 2, Layout.height \div 2>>, <<0, 0>>)

\* C17: once the video reports its native size, whatever the zoom and the pan
\* are, getCoords maps a pointer event at the exact centre of the displayed
\* picture to (nativeWidth / 2, nativeHeight / 2).
C17_CentreMapsToNativeCentre ==
    dash.video.videoWidth # 0 =>
        GetCoords(dash, CentreEvent(dash)) =
            [x |-> Rat(dash.video.videoWidth, 2), y |-> Rat(dash.video.videoHeight, 2)]

IsAudio(p) == p.kind = "inlineData" /\ p.mimeType = "audio/wav"
IsImage(p) == p.kind = "inlineData" /\ p.mimeType = "image/jpeg"

\* The frames of the sources, source after source, each in its sampling order.
RECURSIVE AllFrames(_)
AllFrames(sources) ==
    IF sources = <<>> THEN <<>> ELSE Head(sources).frames \o AllFrames(Tail(sources))

\* C18: the request holds at most one audio part; its image parts are, in
\* order, the frames of the sources in input order, each source's frames in
\* sampling order, none dropped, duplicated or moved; and each image part comes
\* right after the text label that carries its frame's timestamp.
C18_RequestKeepsFrames ==
    an.parts # <<>> =>
        LET parts == an.parts
            frames == AllFrames(an.sources)
            images == SelectSeq(parts, IsImage)
            Rank(k) == Cardinality({m \in 1..k : IsImage(parts[m])})
        IN  /\ Cardinality({k \in 1..Len(parts) : IsAudio(parts[k])}) <= 1
            /\ Len(images) = Len(frames)
            /\ \A j \in 1..Len(frames) : images[j] = ImagePart(frames[j])
            /\ \A k \in 1..Len(parts) :
                  IsImage(parts[k]) =>
                      /\ k > 1
                      /\ parts[k - 1].kind = "text"
                      /\ parts[k - 1].what = "frame"
                      /\ parts[k - 1].v = ToFixed3(frames[Rank(k)].timestamp)

\* A request with the audio part and two sources whose frames differ.
C18_Witness ==
    /\ an.parts # <<>>
    /\ Cardinality({k \in 1..Len(an.parts) : IsAudio(an.parts[k])}) = 1
    /\ Len(an.sources) = 2
    /\ Len(an.sources[1].frames) = 1
    /\ Len(an.sources[2].frames) = 2

\* C19: every run that sends its request has invoked the audio extraction for
\* its first source; the audio of the runs here decodes, so the request holds
\* the WAV.
C19_RunExtractsAudio ==
    \A run \in InFlight :
        (run.pc = "analyzing" /\ run.an.stage = "streaming") =>
            /\ run.an.audioCalled
            /\ HasAudioPart(run.an.parts)

\* C20: within a run the extraction is sequential. The video a run extracts
\* from has at most one 'seeked' listener, and exactly one while a seek is
\* pending; seek i is issued only when the frames of the i seeks before it are
\* recorded; and source k is being extracted only when each of the k - 1
\* sources before it has resolved with all its frames.
C20_ExtractionSequential ==
    \A run \in InFlight :
        /\ run.ex.listeners <= 1
        /\ run.ex.stage = "loading" => run.ex.listeners = 0
        /\ run.ex.stage = "seeking" =>
              /\ run.ex.listeners = 1
              /\ run.ex.i < KeyframeCount
              /\ Len(run.ex.frames) = run.ex.i
              /\ run.ex.time = SeekTime(run.ex, run.ex.i)
        /\ run.pc = "extracting" =>
              /\ Len(run.framesPayload) = run.idx - 1
              /\ \A k \in 1..Len(run.framesPayload) :
                    /\ run.framesPayload[k].name = Name(k)
                    /\ Len(run.framesPayload[k].frames) = KeyframeCount

\* A run waits for the third seek of its second source.
C20_Witness ==
    \E run \in InFlight :
        /\ run.pc = "extracting"
        /\ run.idx = 2
        /\ run.ex.stage = "seeking"
        /\ run.ex.i = 2
        /\ Len(run.ex.frames) = 2

\* C21: a pointer-up that completes a scan capture stores the crop, opens the
\* ROI modal, clears the selection rectangle and sets the tool mode to view; a
\* pointer-up with any other outcome leaves the tool mode as it was.
C21_OnlyCaptureChangesMode ==
    [][PointerUp =>
          IF ScanGestureOpen(dash) /\ AtLeastTenByTen(NativeSize(dash))
          THEN /\ dash'.roiImage # None
               /\ dash'.roiModalOpen
               /\ dash'.roiSelection = None
               /\ dash'.toolMode = "view"
          ELSE dash'.toolMode = dash.toolMode]_vars

\* C22: while the active source's metadata has loaded, the overlay canvas has
\* the source's native width and height; the 1280 x 720 fallback is in effect
\* only while the native size is unknown.
C22_CanvasHasNativeSize ==
    IF dash.video.videoWidth # 0
    THEN dash.canvas = [width |-> dash.video.videoWidth, height |-> dash.video.videoHeight]
    ELSE dash.canvas = [width |-> 1280, height |-> 720]

SignedLE16(b) == IF ReadLE(b, 0, 2) >= 32768 THEN ReadLE(b, 0, 2) - 65536 ELSE ReadLE(b, 0, 2)

\* The frames looked at: the first six and the last two of len. The channel data
\* repeats with a period of at most three, so these meet every sample value.
FramesChecked(len) ==
    {k \in 0..5 : k < len} \cup {k \in {len - 2, len - 1} : k >= 0}

SameOrOneMore(s, t) ==
    \/ t = s
    \/ Len(t) = Len(s) + 1 /\ SubSeq(t, 1, Len(s)) = s

\* C25: every step other than the reset leaves the committed annotations as
\* they are or appends one stroke at the end, so a committed stroke keeps its
\* place, its points and its colour; and while a drag is active, every step
\* between its mouse-down and its pointer-up leaves the path in progress as it
\* is or appends one point to it.
C25_AnnotationsAppendOnly ==
    /\ [][~ResetToolsClick => SameOrOneMore(dash.annotations, dash'.annotations)]_vars
    /\ [][(dash.isDrawing /\ ~MouseDown /\ ~PointerUp) =>
            SameOrOneMore(dash.currentPath, dash'.currentPath)]_vars

\* Two committed strokes of different colours, and a third stroke under way.
C25_Witness ==
    /\ Len(dash.annotations) = 2
    /\ dash.annotations[1].color # dash.annotations[2].color
    /\ dash.isDrawing
    /\ Len(dash.currentPath) = 1

\* C26: whenever the phase is COMPLETE the analysis is set, and whenever the
\* phase is ERROR the error is set, also when runs overlap and when the session
\* has gone back to IDLE with a run pending.
C26_CompleteHasAnalysis ==
    /\ app.phase = "COMPLETE" => app.analysis # None
    /\ app.phase = "ERROR" => app.error # NULL

\* The phase is COMPLETE by the result of one run while another run, started
\* after a return to IDLE, is still extracting.
C26_Witness ==
    /\ app.phase = "COMPLETE"
    /\ app.analysis # None
    /\ \E run \in InFlight : run.pc = "extracting"

\* The phase changes of a run that nobody interrupts.
RunPhaseSteps ==
    {<<"IDLE", "PROCESSING_VIDEO">>, <<"PROCESSING_VIDEO", "ANALYZING">>,
     <<"ANALYZING", "COMPLETE">>, <<"PROCESSING_VIDEO", "ERROR">>, <<"ANALYZING", "ERROR">>}

\* C27: in a run that the user does not interrupt, the phase changes only from
\* IDLE to PROCESSING_VIDEO, from there to ANALYZING and from there to
\* COMPLETE, or to ERROR from PROCESSING_VIDEO or ANALYZING, and so never
\* leaves COMPLETE or ERROR; and while the phase is ANALYZING the run holds the
\* frames of every one of its sources.
C27_PhaseOrderOfOneRun ==
    /\ [][app'.phase # app.phase => <<app.phase, app'.phase>> \in RunPhaseSteps]_vars
    /\ [](app.phase = "ANALYZING" =>
             \A run \in InFlight :
                 /\ run.pc = "analyzing"
                 /\ Len(run.framesPayload) = run.sources
                 /\ \A k \in 1..run.sources :
                       Len(run.framesPayload[k].frames) = KeyframeCount)

\* A run of two sources is in its analysis.
C27_Witness ==
    /\ app.phase = "ANALYZING"
    /\ \E run \in InFlight : run.sources = 2 /\ run.an.stage = "streaming"

\* C28: a call settles when every event it waits for comes. As long as a call
\* is pending it waits for the metadata or an error, or for the one seek it has
\* issued, so that with each of these coming it goes on to settle; and a call
\* that resolved has handled exactly numFrames seeks and holds their frames.
C28_ExtractionSettles ==
    /\ ex.settled = "pending" =>
          \/ ex.stage = "loading"
          \/ ex.stage = "seeking" /\ ex.listeners = 1
    /\ ex.settled = "resolved" =>
          /\ ex.i = ex.numFrames
          /\ Len(ex.result) = ex.numFrames

\* C29: the busy flag of a query is cleared when the query settles. While the
\* flag is set a call is in flight, whose settling is the only thing that
\* clears it; and the step on which a call resolves or rejects clears it.
C29_BusyFlagCleared ==
    /\ [](dash.isRoiAnalyzing => dash.roiCalls # {})
    /\ [][(RoiQueryResolves \/ RoiQueryRejects) => ~dash'.isRoiAnalyzing]_vars

\* C30: an answer shown in the ROI modal is the answer to a query about the
\* crop shown with it.
C30_AnswerBelongsToCrop ==
    (RoiModalShown(dash) /\ dash.roiResult # None) =>
        dash.roiResult[1].of = dash.roiImage[1]

====
